---- MODULE Spec2Model ----
(***************************************************************************)
(* Model of mlx_lm/models/switch_layers.py: the sort/unsort coordinator    *)
(* (_gather_sort, _scatter_unsort), the indexed linear units (SwitchLinear,*)
(* QuantizedSwitchLinear) and the expert blocks (SwitchGLU, SwitchMLP).    *)
(*                                                                         *)
(* Three specifications share the variables:                               *)
(*   Spec       one forward call of a SwitchGLU or SwitchMLP block;        *)
(*   SpecSort   _gather_sort and _scatter_unsort called on their own;      *)
(*   SpecQuant  construction of linear units and to_quantized.             *)
(*                                                                         *)
(* Arrays are records [shape, data].  A feature array (x and everything    *)
(* computed from it) keeps one entry of data per vector of its last axis,  *)
(* in row-major order of the other axes; an integer array keeps one entry  *)
(* per element.  data is a function on 0..n-1, as the code indexes from 0. *)
(* Numbers computed by the kernels are symbolic terms: two entries are     *)
(* equal as terms only if they are the same computation on the same token  *)
(* with the same expert, so an equality found here holds for every weight, *)
(* activation function and input value.                                    *)
(***************************************************************************)
EXTENDS Integers, Sequences, FiniteSets, TLC

VARIABLES
    pc,         \* "ready": arguments drawn, nothing called; "done": the call returned
    self,       \* the object the call is made on
    x_in,       \* argument x
    indices_in, \* argument indices
    call,       \* the frame of the call once it returned: its locals and its result
    units,      \* the linear units constructed so far, in order of construction
    err         \* the exception the last construction or conversion raised, or None

vars == <<pc, self, x_in, indices_in, call, units, err>>

None == [none |-> TRUE]

-----------------------------------------------------------------------------
(* Bounds of the model *)

NumExperts == 2
InputDims == 16
HiddenDims == 32

-----------------------------------------------------------------------------
(* Shapes *)

RECURSIVE Prod(_)
Prod(s) == IF s = <<>> THEN 1 ELSE Head(s) * Prod(Tail(s))

Last(s) == s[Len(s)]
Front(s) == SubSeq(s, 1, Len(s) - 1)

\* Number of data entries of a feature array of shape s
Rows(s) == Prod(Front(s))

\* Coordinate along axis j (1-based) of flat position i in an array of shape s
Coord(s, j, i) == (i \div Prod(SubSeq(s, j + 1, Len(s)))) % s[j]

RECURSIVE PadLeft(_, _)
PadLeft(s, n) == IF Len(s) >= n THEN s ELSE PadLeft(<<1>> \o s, n)

Max(a, b) == IF a >= b THEN a ELSE b

\* Broadcasting of two shapes, aligned on the last axis (the arrays' rule)
BroadcastShapes(s1, s2) ==
    LET n == Max(Len(s1), Len(s2))
        a == PadLeft(s1, n)
        b == PadLeft(s2, n)
    IN  [j \in 1..n |-> IF a[j] = 1 THEN b[j] ELSE a[j]]

RECURSIVE BSum(_, _, _, _)
BSum(src, b, i, j) ==
    IF j > Len(src) THEN 0
    ELSE (IF src[j] = 1 THEN 0
          ELSE Coord(b, j + (Len(b) - Len(src)), i) * Prod(SubSeq(src, j + 1, Len(src))))
         + BSum(src, b, i, j + 1)

\* Flat position, in an array of shape src, of the element that position i of
\* the broadcast shape b reads
BIdx(src, b, i) == BSum(src, b, i, 1)

-----------------------------------------------------------------------------
(* Symbolic values *)

\* f itself, with its table of values computed once
Force(f) == IF f = f THEN f ELSE f

Term(op, name, e, a, b) == <<op, name, e, a, b>>
XVec(tok) == Term("x", "", tok, <<>>, <<>>)
Undefined == Term("undefined", "", 0, <<>>, <<>>)

-----------------------------------------------------------------------------
(* Array primitives of the substrate, as the code uses them *)

\* mx.expand_dims(x, (-2, -3))
ExpandDims23(x) ==
    [shape |-> Front(x.shape) \o <<1, 1, Last(x.shape)>>, data |-> x.data]

\* x.flatten(0, -3)
Flatten0m3(x) ==
    LET n == Len(x.shape)
    IN  [shape |-> <<Prod(SubSeq(x.shape, 1, n - 2))>> \o SubSeq(x.shape, n - 1, n),
         data |-> x.data]

\* indices.flatten()
Flatten(a) == [shape |-> <<Prod(a.shape)>>, data |-> a.data]

\* a[i] for a feature array a and a one-dimensional integer array i: gathers
\* along axis 0
Take(a, i) ==
    LET r == Rows(Tail(a.shape))
        n == i.shape[1]
    IN  [shape |-> <<n>> \o Tail(a.shape),
         data |-> Force([p \in 0..(n * r - 1) |-> a.data[i.data[p \div r] * r + (p % r)]])]

\* a[i] for one-dimensional integer arrays
TakeInt(a, i) ==
    [shape |-> i.shape, data |-> Force([p \in 0..(i.shape[1] - 1) |-> a.data[i.data[p]]])]


\* a // m, elementwise
FloorDiv(a, m) ==
    [shape |-> a.shape, data |-> Force([p \in DOMAIN a.data |-> a.data[p] \div m])]

\* mx.unflatten(x, 0, shape)
Unflatten0(x, shape) == [shape |-> shape \o Tail(x.shape), data |-> x.data]

\* x.squeeze(-2)
SqueezeM2(x) ==
    LET n == Len(x.shape)
    IN  [shape |-> SubSeq(x.shape, 1, n - 2) \o <<x.shape[n]>>, data |-> x.data]

\* mx.stop_gradient(idx): the same values, cut from the gradient graph
StopGradient(a) == [shape |-> a.shape, data |-> a.data, detached |-> TRUE]

IsNonDecreasing(d) ==
    \A p \in DOMAIN d : (p + 1) \in DOMAIN d => d[p] <= d[p + 1]

\* mx.argsort(a) of a one-dimensional integer array: the positions of a in
\* non-decreasing order of their values.  The call does not ask for a stable
\* sort and fixes no order among positions holding equal values; that order
\* is the parameter tie, a priority per position (tie[i] = i gives the stable
\* order).  Every permutation that sorts a is Argsort(a, tie) for some tie.
Argsort(a, tie) ==
    LET n == a.shape[1]
        D == 0..(n - 1)
        d == a.data
        rank == Force([i \in D |->
                    LET di == d[i]
                        ti == tie[i]
                    IN  Cardinality({j \in D : d[j] < di \/ (d[j] = di /\ tie[j] < ti)})])
    IN  [shape |-> <<n>>,
         data |-> Force([p \in D |-> CHOOSE i \in D : rank[i] = p])]

Identity(n) == [i \in 0..(n - 1) |-> i]

-----------------------------------------------------------------------------
(* Indexed linear units *)

\* An array object: id tells one object from another, val what it holds
NewArray(id, shape, val) == [id |-> id, shape |-> shape, val |-> val]

\* SwitchLinear.__init__: weight of shape (num_experts, output_dims, input_dims)
\* drawn at random, bias of zeros when asked for.  name tells the unit's
\* arrays from those of other units.
SwitchLinearInit(name, input_dims, output_dims, num_experts, bias) ==
    LET w == NewArray(<<name, "init", "weight">>, <<num_experts, output_dims, input_dims>>,
                      <<"uniform", name>>)
    IN  IF bias
        THEN [cls |-> "SwitchLinear", name |-> name, weight |-> w,
              bias |-> NewArray(<<name, "init", "bias">>, <<num_experts, output_dims>>, <<"zeros">>)]
        ELSE [cls |-> "SwitchLinear", name |-> name, weight |-> w]

\* "bias" in self
HasBias(u) == "bias" \in DOMAIN u

\* SwitchLinear.input_dims / output_dims / num_experts
SLInputDims(u) == u.weight.shape[3]
SLOutputDims(u) == u.weight.shape[2]
SLNumExperts(u) == u.weight.shape[1]


\* gather_mm that gives every slot of a token the expert of the token's first
\* slot
GatherMMFirstSlot(x, u, indices, sorted_indices) ==
    LET n  == Len(x.shape)
        xb == SubSeq(x.shape, 1, n - 2)
        r  == x.shape[n - 1]
        bs == BroadcastShapes(xb, indices.shape)
        K  == Last(indices.shape)
    IN  [shape |-> bs \o <<r, u.weight.shape[2]>>,
         data |-> Force([p \in 0..(Prod(bs) * r - 1) |->
                     Term("mm", u.name,
                          indices.data[(BIdx(indices.shape, bs, p \div r) \div K) * K],
                          x.data[BIdx(xb, bs, p \div r) * r + (p % r)], <<>>)])]

\* mx.gather_mm(x, w.swapaxes(-1, -2), rhs_indices=indices, sorted_indices=s):
\* for every position of the broadcast of x's batch axes with indices, the
\* product of that x matrix with the weight of the expert named there.  With
\* sorted_indices set on indices that are not sorted the result is undefined.
GatherMM(x, u, indices, sorted_indices) ==
    LET n  == Len(x.shape)
        xb == SubSeq(x.shape, 1, n - 2)
        r  == x.shape[n - 1]
        bs == BroadcastShapes(xb, indices.shape)
        ok == sorted_indices => IsNonDecreasing(indices.data)
    IN  [shape |-> bs \o <<r, SLOutputDims(u)>>,
         data |-> Force([p \in 0..(Prod(bs) * r - 1) |->
                     IF ok
                     THEN Term("mm", u.name,
                               indices.data[BIdx(indices.shape, bs, p \div r)],
                               x.data[BIdx(xb, bs, p \div r) * r + (p % r)], <<>>)
                     ELSE Undefined])]

\* x + mx.expand_dims(self["bias"][indices], -2)
AddBias(x, u, indices) ==
    LET bsh == indices.shape \o <<1>>
        fs  == BroadcastShapes(Front(x.shape), bsh)
    IN  [shape |-> fs \o <<Last(x.shape)>>,
         data |-> Force([p \in 0..(Prod(fs) - 1) |->
                     Term("add", "", 0,
                          x.data[BIdx(Front(x.shape), fs, p)],
                          Term("bias", u.name, indices.data[BIdx(bsh, fs, p)],
                               <<>>, <<>>))])]

\* SwitchLinear.__call__
SwitchLinearCall(u, x, indices, sorted_indices) ==
    LET y == GatherMM(x, u, indices, sorted_indices)
    IN  IF HasBias(u) THEN AddBias(y, u, indices) ELSE y

\* The record kept of one call of a linear unit
CallRec(u, indices, sorted_indices) ==
    [unit |-> u.name, indices |-> indices, sorted_indices |-> sorted_indices]

\* self.activation(x), elementwise
Activation(name, x) ==
    [shape |-> x.shape,
     data |-> Force([p \in DOMAIN x.data |-> Term("act", name, 0, x.data[p], <<>>)])]

\* a * b, elementwise on equal shapes
Mul(a, b) ==
    [shape |-> a.shape,
     data |-> Force([p \in DOMAIN a.data |-> Term("mul", "", 0, a.data[p], b.data[p])])]

-----------------------------------------------------------------------------
(* Sort / unsort coordinator *)


\* _gather_sort returning order where inv_order is meant
GatherSortInvIsOrder(x, indices, tie) ==
    LET M     == Last(indices.shape)
        flat  == Flatten(indices)
        ord   == Argsort(flat, tie)
    IN  [x |-> Take(Flatten0m3(x), FloorDiv(ord, M)),
         indices |-> TakeInt(flat, ord),
         inv_order |-> ord,
         order |-> ord]

\* _gather_sort that gathers x by inv_order where order is meant
GatherSortByInverse(x, indices, tie) ==
    LET M     == Last(indices.shape)
        flat  == Flatten(indices)
        ord   == Argsort(flat, tie)
        inv   == Argsort(ord, tie)
    IN  [x |-> Take(Flatten0m3(x), FloorDiv(inv, M)),
         indices |-> TakeInt(flat, ord),
         inv_order |-> inv,
         order |-> ord]

\* _gather_sort that sorts twice, once for x and once for indices and
\* inv_order, as if argsort gave equal values the same order each time
GatherSortSortsTwice(x, indices, tie) ==
    LET M     == Last(indices.shape)
        flat  == Flatten(indices)
        ord1  == Argsort(flat, Identity(flat.shape[1]))
        ord   == Argsort(flat, tie)
    IN  [x |-> Take(Flatten0m3(x), FloorDiv(ord1, M)),
         indices |-> TakeInt(flat, ord),
         inv_order |-> Argsort(ord, tie),
         order |-> ord]

\* _gather_sort(x, indices); tie decides the order argsort gives equal values.
\* The code returns (x, indices, inv_order); order is its local.
GatherSort(x, indices, tie) ==
    LET M     == Last(indices.shape)
        flat  == Flatten(indices)
        ord   == Argsort(flat, tie)
        inv   == Argsort(ord, tie)
    IN  [x |-> Take(Flatten0m3(x), FloorDiv(ord, M)),
         indices |-> TakeInt(flat, ord),
         inv_order |-> inv,
         order |-> ord]


\* _scatter_unsort that only reshapes
ScatterUnsortNoGather(x, inv, shape) ==
    IF shape # None THEN Unflatten0(x, shape) ELSE x

\* _scatter_unsort(x, inv_order, shape)
ScatterUnsort(x, inv, shape) ==
    LET y == Take(x, inv)
    IN  IF shape # None THEN Unflatten0(y, shape) ELSE y


\* do_sort = indices.size > 64
DoSortAbove(size) == size > 64

SortThreshold == 64

\* do_sort = indices.size >= 64
DoSort(size) == size >= SortThreshold

-----------------------------------------------------------------------------
(* Expert blocks *)

\* SwitchGLU.__init__
SwitchGLUInit(input_dims, hidden_dims, num_experts, bias, training) ==
    [kind |-> "SwitchGLU",
     gate_proj |-> SwitchLinearInit("gate_proj", input_dims, hidden_dims, num_experts, bias),
     up_proj |-> SwitchLinearInit("up_proj", input_dims, hidden_dims, num_experts, bias),
     down_proj |-> SwitchLinearInit("down_proj", hidden_dims, input_dims, num_experts, bias),
     activation |-> "silu",
     training |-> training]

\* SwitchMLP.__init__
SwitchMLPInit(input_dims, hidden_dims, num_experts, bias, training) ==
    [kind |-> "SwitchMLP",
     fc1 |-> SwitchLinearInit("fc1", input_dims, hidden_dims, num_experts, bias),
     fc2 |-> SwitchLinearInit("fc2", hidden_dims, input_dims, num_experts, bias),
     activation |-> "gelu",
     training |-> training]


\* __call__ that drops the indices _gather_sort returns and keeps the caller's
PrepareKeepsIndices(blk, x, indices, tie) ==
    LET x1 == ExpandDims23(x)
        ds == Prod(indices.shape) >= 64
        gs == GatherSort(x1, indices, tie)
        i1 == IF ds THEN Flatten(indices) ELSE indices
    IN  [do_sort |-> ds,
         x |-> IF ds THEN gs.x ELSE x1,
         idx |-> IF blk.training THEN StopGradient(i1) ELSE i1,
         inv_order |-> IF ds THEN gs.inv_order ELSE None,
         order |-> IF ds THEN gs.order ELSE None]

\* The part of both __call__s before the linear units: expand_dims, do_sort,
\* _gather_sort when do_sort, stop_gradient when training
Prepare(blk, x, indices, tie) ==
    LET x1 == ExpandDims23(x)
        ds == DoSort(Prod(indices.shape))
        gs == GatherSort(x1, indices, tie)
        i1 == IF ds THEN gs.indices ELSE indices
    IN  [do_sort |-> ds,
         x |-> IF ds THEN gs.x ELSE x1,
         idx |-> IF blk.training THEN StopGradient(i1) ELSE i1,
         inv_order |-> IF ds THEN gs.inv_order ELSE None,
         order |-> IF ds THEN gs.order ELSE None]

\* The part of both __call__s after the linear units: _scatter_unsort when
\* do_sort, squeeze(-2)
Finish(y, p, indices) ==
    SqueezeM2(IF p.do_sort THEN ScatterUnsort(y, p.inv_order, indices.shape) ELSE y)


\* SwitchGLU chain whose gate is computed by up_proj
GLUChainGateFromUp(blk, x, ix, sorted_indices) ==
    LET x_up   == SwitchLinearCall(blk.up_proj, x, ix, sorted_indices)
        x_gate == SwitchLinearCall(blk.up_proj, x, ix, sorted_indices)
    IN  SwitchLinearCall(blk.down_proj, Mul(Activation(blk.activation, x_gate), x_up),
                         ix, sorted_indices)

\* SwitchGLU.__call__, lines 162-168: up_proj, gate_proj, down_proj on idx
GLUChain(blk, x, ix, sorted_indices) ==
    LET x_up   == SwitchLinearCall(blk.up_proj, x, ix, sorted_indices)
        x_gate == SwitchLinearCall(blk.gate_proj, x, ix, sorted_indices)
    IN  SwitchLinearCall(blk.down_proj, Mul(Activation(blk.activation, x_gate), x_up),
                         ix, sorted_indices)

GLUCalls(blk, ix, sorted_indices) ==
    << CallRec(blk.up_proj, ix, sorted_indices),
       CallRec(blk.gate_proj, ix, sorted_indices),
       CallRec(blk.down_proj, ix, sorted_indices) >>

\* SwitchMLP.__call__, lines 203-205: fc1, activation, fc2 on idx
MLPChain(blk, x, ix, sorted_indices) ==
    SwitchLinearCall(blk.fc2,
                     Activation(blk.activation,
                                SwitchLinearCall(blk.fc1, x, ix, sorted_indices)),
                     ix, sorted_indices)

MLPCalls(blk, ix, sorted_indices) ==
    << CallRec(blk.fc1, ix, sorted_indices), CallRec(blk.fc2, ix, sorted_indices) >>

Chain(blk, x, ix, sorted_indices) ==
    IF blk.kind = "SwitchGLU" THEN GLUChain(blk, x, ix, sorted_indices)
    ELSE MLPChain(blk, x, ix, sorted_indices)

ChainCalls(blk, ix, sorted_indices) ==
    IF blk.kind = "SwitchGLU" THEN GLUCalls(blk, ix, sorted_indices)
    ELSE MLPCalls(blk, ix, sorted_indices)

\* The orders argsort may give equal values, as priorities per position
NumTiePolicies == 3

TiePolicy(t, n) ==
    Force([i \in 0..(n - 1) |->
             ((i % ((t \div 2) + 1)) * n) + (IF t % 2 = 0 THEN i ELSE n - 1 - i)])

TiePolicies(n) == {TiePolicy(t, n) : t \in 0..(NumTiePolicies - 1)}

-----------------------------------------------------------------------------
(* The forward call of a block *)

\* SwitchGLU.__call__ / SwitchMLP.__call__ as a whole: the locals (do_sort,
\* order, inv_order, idx, the x handed to the first unit), the calls made to the
\* linear units, the chain's result y before _scatter_unsort, and the value
\* returned
BlockCall(blk, x, indices, tie) ==
    LET p == Prepare(blk, x, indices, tie)
        y == Chain(blk, p.x, p.idx, p.do_sort)
    IN  [do_sort |-> p.do_sort,
         order |-> p.order,
         inv_order |-> p.inv_order,
         idx |-> p.idx,
         x |-> p.x,
         calls |-> ChainCalls(blk, p.idx, p.do_sort),
         y |-> y,
         out |-> Finish(y, p, indices)]

-----------------------------------------------------------------------------
(* Inputs of a forward call *)

Shapes == { <<1, 2, 2>>, <<2, 5, 2>>, <<3, 7, 3>>,
            <<4, 8, 2>>, <<8, 8, 1>>, <<1, 13, 5>> }

Seeds == [1..3 -> 0..(NumExperts - 1)]

\* x of shape [B, T, input_dims]: every token its own vector
MakeX(s, d) ==
    [shape |-> <<s[1], s[2], d>>, data |-> Force([t \in 0..(s[1] * s[2] - 1) |-> XVec(t)])]

\* indices of shape [B, T, K]: the seed repeated along the flattened array
MakeIndices(s, seed) ==
    [shape |-> s, data |-> Force([i \in 0..(Prod(s) - 1) |-> seed[(i % Len(seed)) + 1]])]

Blocks ==
    {SwitchGLUInit(InputDims, HiddenDims, NumExperts, b, t) : b \in BOOLEAN, t \in BOOLEAN}
    \cup
    {SwitchMLPInit(InputDims, HiddenDims, NumExperts, b, t) : b \in BOOLEAN, t \in BOOLEAN}

QuantIdle == units = <<>> /\ err = None

Init ==
    /\ pc = "ready"
    /\ self \in Blocks
    /\ \E s \in Shapes : \E seed \in Seeds :
          /\ x_in = MakeX(s, InputDims)
          /\ indices_in = MakeIndices(s, seed)
    /\ call = None
    /\ QuantIdle

\* The orders argsort may produce in this call
CallTies ==
    IF DoSort(Prod(indices_in.shape)) THEN TiePolicies(Prod(indices_in.shape))
    ELSE {Identity(1)}

Forward(tie) ==
    /\ pc' = "done"
    /\ call' = BlockCall(self, x_in, indices_in, tie)
    /\ UNCHANGED <<self, x_in, indices_in, units, err>>

SwitchGLUCall ==
    /\ pc = "ready"
    /\ self.kind = "SwitchGLU"
    /\ \E tie \in CallTies : Forward(tie)

SwitchMLPCall ==
    /\ pc = "ready"
    /\ self.kind = "SwitchMLP"
    /\ \E tie \in CallTies : Forward(tie)

Next == SwitchGLUCall \/ SwitchMLPCall

Spec == Init /\ [][Next]_vars

-----------------------------------------------------------------------------
(* What one (token, slot) pair must receive: the expert's computation on the *)
(* token's vector, written without any array                                *)

Lin(u, e, v) ==
    LET m == Term("mm", u.name, e, v, <<>>)
    IN  IF HasBias(u) THEN Term("add", "", 0, m, Term("bias", u.name, e, <<>>, <<>>))
        ELSE m

ExpectGLU(blk, v, e) ==
    Lin(blk.down_proj, e,
        Term("mul", "", 0,
             Term("act", blk.activation, 0, Lin(blk.gate_proj, e, v), <<>>),
             Lin(blk.up_proj, e, v)))

ExpectMLP(blk, v, e) ==
    Lin(blk.fc2, e, Term("act", blk.activation, 0, Lin(blk.fc1, e, v), <<>>))

Expect(blk, v, e) ==
    IF blk.kind = "SwitchGLU" THEN ExpectGLU(blk, v, e) ELSE ExpectMLP(blk, v, e)

\* Flat position of coordinate (b, t, k) in an array of shape s = [B, T, K]
FlatPos(s, b, t, k) == ((b * s[2]) + t) * s[3] + k

Size == Prod(indices_in.shape)
IsBlockCall == self.kind \in {"SwitchGLU", "SwitchMLP"}
Returned == pc = "done" /\ IsBlockCall
InputUnsorted == ~IsNonDecreasing(indices_in.data)

\* The two paths of __call__, each taken whatever the size
SortedPath(blk, x, indices, tie) ==
    LET gs == GatherSort(ExpandDims23(x), indices, tie)
        y  == Chain(blk, gs.x, gs.indices, TRUE)
    IN  SqueezeM2(ScatterUnsort(y, gs.inv_order, indices.shape))

UnsortedPath(blk, x, indices) ==
    SqueezeM2(Chain(blk, ExpandDims23(x), indices, FALSE))

\* C2: SwitchGLU.__call__ returns an array of shape [B, T, K, input_dims] whose
\* entry at (b, t, k) is down_proj(activation(gate_proj(x[b,t], e)) *
\* up_proj(x[b,t], e), e) with e = indices[b,t,k], on either path.
C2_GLUOutput ==
    (pc = "done" /\ self.kind = "SwitchGLU") =>
        LET s == indices_in.shape
        IN  /\ call.out.shape = s \o <<SLInputDims(self.gate_proj)>>
            /\ DOMAIN call.out.data = 0..(Prod(s) - 1)
            /\ \A b \in 0..(s[1] - 1) : \A t \in 0..(s[2] - 1) : \A k \in 0..(s[3] - 1) :
                  call.out.data[FlatPos(s, b, t, k)]
                    = ExpectGLU(self, x_in.data[(b * s[2]) + t],
                                indices_in.data[FlatPos(s, b, t, k)])

C2_Witness ==
    /\ pc = "done" /\ self.kind = "SwitchGLU"
    /\ call.do_sort /\ InputUnsorted
    /\ HasBias(self.gate_proj)
    /\ indices_in.shape[3] > 1

\* C4: the sort path is taken exactly when indices.size >= 64.  Below, nothing
\* is reordered and every linear unit gets the original indices with
\* sorted_indices=False; from 64 on, _gather_sort's arrays are used; the value
\* returned is the per-slot computation either way.
C4_Threshold ==
    Returned =>
        /\ call.do_sort <=> (Size >= 64)
        /\ (Size = 63) => ~call.do_sort
        /\ ~call.do_sort =>
              /\ call.order = None /\ call.inv_order = None
              /\ call.x = ExpandDims23(x_in)
              /\ \A c \in 1..Len(call.calls) :
                    /\ ~call.calls[c].sorted_indices
                    /\ call.calls[c].indices.shape = indices_in.shape
                    /\ call.calls[c].indices.data = indices_in.data
        /\ call.do_sort =>
              /\ call.order # None /\ call.inv_order # None
              /\ call.x.data = [p \in 0..(Size - 1) |->
                                  x_in.data[call.order.data[p] \div Last(indices_in.shape)]]
              /\ \A c \in 1..Len(call.calls) :
                    /\ call.calls[c].sorted_indices
                    /\ call.calls[c].indices.shape = <<Size>>
        /\ \A i \in 0..(Size - 1) :
              call.out.data[i] = Expect(self, x_in.data[i \div Last(indices_in.shape)],
                                        indices_in.data[i])

C4_Witness == Returned /\ Size = 64 /\ call.do_sort /\ InputUnsorted

\* The orders of equal values tried when a path is recomputed: all of them on
\* small arrays, the policies on large ones
MaxFullTies == 4

CheckTies(n) == IF n <= MaxFullTies THEN Permutations(0..(n - 1)) ELSE TiePolicies(n)

ExpectAt(i) ==
    Expect(self, x_in.data[i \div Last(indices_in.shape)], indices_in.data[i])

\* C1: for both blocks and every input, the sorted path and the unsorted path
\* return the same array; on the sorted path every (token, slot) computation
\* occurs exactly once in the sorted intermediate, and the output holds each
\* one at its original coordinate.
C1_PathsAgree ==
    Returned =>
        /\ IF call.do_sort
           THEN /\ call.out = UnsortedPath(self, x_in, indices_in)
                /\ \A i \in 0..(Size - 1) :
                      Cardinality({p \in 0..(Size - 1) : call.order.data[p] = i}) = 1
                /\ DOMAIN call.y.data = 0..(Size - 1)
                /\ \A p \in 0..(Size - 1) : call.y.data[p] = ExpectAt(call.order.data[p])
           ELSE \A tie \in CheckTies(Size) :
                      SortedPath(self, x_in, indices_in, tie) = call.out
        /\ DOMAIN call.out.data = 0..(Size - 1)
        /\ \A i \in 0..(Size - 1) : call.out.data[i] = ExpectAt(i)

C1_Witness ==
    /\ Returned /\ call.do_sort /\ InputUnsorted
    /\ call.order.data # Identity(Size)
    /\ self.kind = "SwitchMLP"

\* C5: every call of a linear unit made with sorted_indices=True passes an
\* index array that is non-decreasing when flattened, and that array is the one
\* _gather_sort returned in this call (indices.flatten()[order]).
C5_SortedFlagOnlyOnSorted ==
    Returned =>
        \A c \in 1..Len(call.calls) :
            call.calls[c].sorted_indices =>
                /\ IsNonDecreasing(call.calls[c].indices.data)
                /\ call.do_sort
                /\ call.order # None
                /\ call.calls[c].indices.shape = <<Size>>
                /\ call.calls[c].indices.data
                     = [p \in 0..(Size - 1) |-> indices_in.data[call.order.data[p]]]

C5_Witness ==
    /\ Returned /\ InputUnsorted
    /\ Len(call.calls) = 3
    /\ \A c \in 1..3 : call.calls[c].sorted_indices

\* C6: a token with two slots routed to the same expert gets two entries in the
\* output, one per slot, each the expert's computation on that token; the
\* output keeps all K slots of every token.
HasRepeat(t) ==
    LET K == Last(indices_in.shape)
    IN  \E k1, k2 \in 0..(K - 1) :
            k1 # k2 /\ indices_in.data[t * K + k1] = indices_in.data[t * K + k2]

C6_RepeatedExpertSlots ==
    Returned =>
        LET s == indices_in.shape
            K == s[3]
        IN  \A t \in 0..(s[1] * s[2] - 1) : \A k1, k2 \in 0..(K - 1) :
                (k1 # k2 /\ indices_in.data[t * K + k1] = indices_in.data[t * K + k2]) =>
                    /\ call.out.shape[3] = K
                    /\ Cardinality(DOMAIN call.out.data) = s[1] * s[2] * K
                    /\ {t * K + k1, t * K + k2} \subseteq DOMAIN call.out.data
                    /\ call.out.data[t * K + k1]
                         = Expect(self, x_in.data[t], indices_in.data[t * K + k1])
                    /\ call.out.data[t * K + k2]
                         = Expect(self, x_in.data[t], indices_in.data[t * K + k2])

C6_Witness ==
    /\ Returned /\ call.do_sort /\ InputUnsorted
    /\ \E t \in 0..(indices_in.shape[1] * indices_in.shape[2] - 1) : HasRepeat(t)

\* C10: on the sort path the value returned does not depend on the order
\* argsort gives to positions holding the same expert: recomputing the sort
\* path with any other order that sorts the indices gives the same array.
C10_TieIndependent ==
    /\ (Returned /\ call.do_sort) =>
            \A tie \in TiePolicies(Size) :
                SortedPath(self, x_in, indices_in, tie) = call.out
    /\ (Returned /\ Size <= MaxFullTies) =>
            LET stable == SortedPath(self, x_in, indices_in, Identity(Size))
            IN  \A tie \in Permutations(0..(Size - 1)) :
                    SortedPath(self, x_in, indices_in, tie) = stable

C10_Witness ==
    /\ Returned /\ call.do_sort
    /\ \E tie \in TiePolicies(Size) :
          Argsort(Flatten(indices_in), tie).data # call.order.data

-----------------------------------------------------------------------------
(* _gather_sort and _scatter_unsort called on their own *)

MaxDim == 2

SmallShapes ==
    {s \in (1..MaxDim) \X (1..MaxDim) \X (1..MaxDim) : Prod(s) <= MaxFullTies}

SortInputs ==
    {[shape |-> s, data |-> d] : s \in {<<4, 8, 2>>},
                                 d \in {MakeIndices(<<4, 8, 2>>, seed).data : seed \in Seeds}}
    \cup
    UNION {{[shape |-> s, data |-> d] : d \in [0..(Prod(s) - 1) -> 0..(NumExperts - 1)]}
             : s \in SmallShapes}

InitSort ==
    /\ pc = "ready"
    /\ self = [kind |-> "_gather_sort"]
    /\ indices_in \in SortInputs
    /\ x_in = MakeX(indices_in.shape, InputDims)
    /\ call = None
    /\ QuantIdle

\* x, indices, inv_order = _gather_sort(expand_dims(x), indices)
GatherSortCall ==
    /\ pc = "ready"
    /\ self.kind = "_gather_sort"
    /\ \E tie \in CheckTies(Size) :
          call' = GatherSort(ExpandDims23(x_in), indices_in, tie)
    /\ pc' = "sorted"
    /\ UNCHANGED <<self, x_in, indices_in, units, err>>

\* _scatter_unsort(x, inv_order, shape) on what _gather_sort returned, with and
\* without a shape
ScatterUnsortCall ==
    /\ pc = "sorted"
    /\ \E shape \in {None, indices_in.shape} :
          call' = [x |-> call.x, indices |-> call.indices, inv_order |-> call.inv_order,
                   order |-> call.order, shape |-> shape,
                   out |-> ScatterUnsort(call.x, call.inv_order, shape)]
    /\ pc' = "unsorted"
    /\ UNCHANGED <<self, x_in, indices_in, units, err>>

NextSort == GatherSortCall \/ ScatterUnsortCall

SpecSort == InitSort /\ [][NextSort]_vars

Sorted == self.kind = "_gather_sort" /\ pc \in {"sorted", "unsorted"}

IsPermutation(f, n) ==
    /\ DOMAIN f = 0..(n - 1)
    /\ {f[i] : i \in 0..(n - 1)} = 0..(n - 1)

\* C3: order and inv_order computed by _gather_sort are both permutations of
\* [0, N), and inv_order[order[i]] = i for every i in [0, N).
C3_InverseLaw ==
    Sorted =>
        /\ IsPermutation(call.order.data, Size)
        /\ IsPermutation(call.inv_order.data, Size)
        /\ \A i \in 0..(Size - 1) : call.inv_order.data[call.order.data[i]] = i

C3_Witness ==
    /\ Sorted /\ Size >= 3
    /\ call.order.data # Identity(Size)
    /\ call.order.data # call.inv_order.data

IsStable(ord) ==
    \A p, q \in 0..(Size - 1) :
        (ord[p] < ord[q] /\ indices_in.data[ord[p]] = indices_in.data[ord[q]]) => p < q

GatherLaw ==
    /\ IsPermutation(call.order.data, Size)
    /\ IsNonDecreasing([p \in 0..(Size - 1) |-> indices_in.data[call.order.data[p]]])
    /\ DOMAIN call.x.data = 0..(Size - 1)
    /\ \A p \in 0..(Size - 1) :
          call.x.data[p] = x_in.data[call.order.data[p] \div Last(indices_in.shape)]
    /\ call.indices.shape = <<Size>>
    /\ \A p \in 0..(Size - 1) :
          call.indices.data[p] = indices_in.data[call.order.data[p]]

-----------------------------------------------------------------------------
(* Construction of linear units and conversion to quantized units *)

Raise(type, from) == [ok |-> FALSE, error |-> [type |-> type, from |-> from]]


\* quantize that rounds the number of groups down instead of raising
QuantizeUnchecked(id, w, group_size, bits) ==
    LET n == Len(w.shape)
        d == w.shape[n]
    IN  [ok |-> TRUE,
         weight |-> [id |-> <<id[1], id[2], "weight">>,
                     shape |-> Front(w.shape) \o <<(d * bits) \div 32>>,
                     val |-> <<"packed", w.val, group_size, bits>>],
         scales |-> [id |-> <<id[1], id[2], "scales">>,
                     shape |-> Front(w.shape) \o <<d \div group_size>>,
                     val |-> <<"scales", w.val, group_size, bits>>],
         biases |-> [id |-> <<id[1], id[2], "biases">>,
                     shape |-> Front(w.shape) \o <<d \div group_size>>,
                     val |-> <<"biases", w.val, group_size, bits>>]]

\* mx.quantize(w, group_size, bits): raises ValueError unless the last axis of
\* w is a multiple of group_size; otherwise gives the packed weight (32 / bits
\* elements per word), and one scale and one bias per group of group_size
\* elements.  id = <<unit, call>> names the three new arrays.
Quantize(id, w, group_size, bits) ==
    LET n == Len(w.shape)
        d == w.shape[n]
    IN  IF d % group_size # 0
        THEN Raise("ValueError", "quantize")
        ELSE [ok |-> TRUE,
              weight |-> NewArray(<<id[1], id[2], "weight">>, Front(w.shape) \o <<(d * bits) \div 32>>,
                                  <<"packed", w.val, group_size, bits>>),
              scales |-> NewArray(<<id[1], id[2], "scales">>, Front(w.shape) \o <<d \div group_size>>,
                                  <<"scales", w.val, group_size, bits>>),
              biases |-> NewArray(<<id[1], id[2], "biases">>, Front(w.shape) \o <<d \div group_size>>,
                                  <<"biases", w.val, group_size, bits>>)]

\* QuantizedSwitchLinear.__init__: the unit, or the exception raised
QuantizedSwitchLinearInit(name, input_dims, output_dims, num_experts, bias, group_size, bits) ==
    LET q == Quantize(<<name, "init">>,
                      NewArray(<<name, "init", "uniform">>, <<num_experts, output_dims, input_dims>>,
                               <<"uniform", name>>),
                      group_size, bits)
    IN  IF ~q.ok THEN q
        ELSE [ok |-> TRUE,
              unit |->
                IF bias
                THEN [cls |-> "QuantizedSwitchLinear", name |-> name, weight |-> q.weight,
                      scales |-> q.scales, biases |-> q.biases,
                      group_size |-> group_size, bits |-> bits, frozen |-> TRUE,
                      bias |-> NewArray(<<name, "init", "bias">>, <<num_experts, output_dims>>,
                                        <<"zeros">>)]
                ELSE [cls |-> "QuantizedSwitchLinear", name |-> name, weight |-> q.weight,
                      scales |-> q.scales, biases |-> q.biases,
                      group_size |-> group_size, bits |-> bits, frozen |-> TRUE]]

\* QuantizedSwitchLinear.input_dims / output_dims / num_experts
QSLInputDims(u) == u.scales.shape[3] * u.group_size
QSLOutputDims(u) == u.weight.shape[2]
QSLNumExperts(u) == u.weight.shape[1]

\* SwitchLinear.to_quantized(group_size, bits) on unit u; name is the new
\* unit's.  Gives the new unit, or the exception raised.
ToQuantized(u, name, group_size, bits) ==
    LET ql == QuantizedSwitchLinearInit(name, u.weight.shape[3], u.weight.shape[2],
                                        u.weight.shape[1], FALSE, group_size, bits)
        q  == Quantize(<<name, "to_quantized">>, u.weight, group_size, bits)
    IN  IF ~ql.ok THEN ql
        ELSE IF ~q.ok THEN q
        ELSE [ok |-> TRUE,
              unit |->
                IF HasBias(u)
                THEN [cls |-> "QuantizedSwitchLinear", name |-> name, weight |-> q.weight,
                      scales |-> q.scales, biases |-> q.biases,
                      group_size |-> ql.unit.group_size, bits |-> ql.unit.bits,
                      frozen |-> TRUE, bias |-> u.bias]
                ELSE [cls |-> "QuantizedSwitchLinear", name |-> name, weight |-> q.weight,
                      scales |-> q.scales, biases |-> q.biases,
                      group_size |-> ql.unit.group_size, bits |-> ql.unit.bits,
                      frozen |-> TRUE]]

MaxUnits == 3

QuantInputDims == {32, 48, 64}
GroupSizes == {32, 64}
BitWidths == {4, 8}

InitQuant ==
    /\ pc = "heap"
    /\ self = [kind |-> "heap"]
    /\ x_in = None
    /\ indices_in = None
    /\ call = [op |-> "none"]
    /\ units = <<>>
    /\ err = None

\* SwitchLinear(input_dims, output_dims, num_experts, bias)
NewSwitchLinear ==
    /\ self.kind = "heap"
    /\ Len(units) < MaxUnits
    /\ \E d \in QuantInputDims : \E b \in BOOLEAN :
          /\ units' = Append(units, SwitchLinearInit(Len(units) + 1, d, InputDims,
                                                     NumExperts, b))
          /\ call' = [op |-> "SwitchLinear", nunits |-> Len(units)]
    /\ err' = None
    /\ UNCHANGED <<pc, self, x_in, indices_in>>

\* What a construction or conversion leaves behind: the new unit on success,
\* the exception otherwise
Outcome(r, frame) ==
    /\ units' = IF r.ok THEN Append(units, r.unit) ELSE units
    /\ err' = IF r.ok THEN None ELSE r.error
    /\ call' = frame
    /\ UNCHANGED <<pc, self, x_in, indices_in>>

\* QuantizedSwitchLinear(input_dims, output_dims, num_experts, bias, group_size, bits)
NewQuantizedSwitchLinear ==
    /\ self.kind = "heap"
    /\ Len(units) < MaxUnits
    /\ \E d \in QuantInputDims : \E b \in BOOLEAN : \E g \in GroupSizes : \E w \in BitWidths :
          Outcome(QuantizedSwitchLinearInit(Len(units) + 1, d, InputDims, NumExperts,
                                            b, g, w),
                  [op |-> "QuantizedSwitchLinear", nunits |-> Len(units),
                   input_dims |-> d, group_size |-> g, bits |-> w])

\* units[i].to_quantized(group_size, bits)
ToQuantizedCall ==
    /\ self.kind = "heap"
    /\ Len(units) < MaxUnits
    /\ \E i \in 1..Len(units) : \E g \in GroupSizes : \E w \in BitWidths :
          /\ units[i].cls = "SwitchLinear"
          /\ Outcome(ToQuantized(units[i], Len(units) + 1, g, w),
                     [op |-> "to_quantized", nunits |-> Len(units), src |-> i,
                      before |-> units[i],
                      input_dims |-> SLInputDims(units[i]), group_size |-> g, bits |-> w])

NextQuant == NewSwitchLinear \/ NewQuantizedSwitchLinear \/ ToQuantizedCall

SpecQuant == InitQuant /\ [][NextQuant]_vars

\* The array objects a unit holds
ArrayIds(u) == {u[f].id : f \in DOMAIN u \cap {"weight", "scales", "biases", "bias"}}

Converted == self.kind = "heap" /\ call.op = "to_quantized" /\ err = None

\* What to_quantized does keep: the three dimensions, the presence and the
\* value of the bias, and the source unit as it was
C7_Preserved ==
    Converted =>
        LET s == units[call.src]
            q == units[call.nunits + 1]
        IN  /\ q.cls = "QuantizedSwitchLinear"
            /\ QSLNumExperts(q) = SLNumExperts(s)
            /\ QSLOutputDims(q) = SLOutputDims(s)
            /\ QSLInputDims(q) = SLInputDims(s)
            /\ HasBias(q) <=> HasBias(s)
            /\ HasBias(s) => (q.bias.shape = s.bias.shape /\ q.bias.val = s.bias.val)
            /\ s = call.before

\* C7: to_quantized returns a new QuantizedSwitchLinear with the source's
\* num_experts, output_dims and input_dims, a bias exactly when the source has
\* one and then equal to it, leaves the source's weight and bias unchanged,
\* and the two units share no array object.
C7_ToQuantizedNoSharing ==
    /\ C7_Preserved
    /\ Converted =>
          ArrayIds(units[call.src]) \cap ArrayIds(units[call.nunits + 1]) = {}

====
